---------------------------- MODULE Spec2Model ----------------------------
(***************************************************************************)
(* A model of the vault agent, one specification per subsystem:            *)
(*                                                                         *)
(*   - ClientSpec: X402Client (src/agent/api/client.py), the pay-per-call  *)
(*     HTTP GET with its single pay-and-retry round trip;                  *)
(*   - ExecSpec: TransactionExecutor (src/agent/core/executor.py), execute *)
(*     and execute_multiple against a chain RPC;                           *)
(*   - RaceSpec: two TransactionExecutors of independent processes on one  *)
(*     signing key, each running a one-step sequence;                      *)
(*   - BufferSpec: increase_approval_buffer (src/agent/utils.py), with     *)
(*     Python's unbounded int and double-precision float arithmetic;       *)
(*   - PayloadSpec: TransactionAPI.generate_deposit_tx                     *)
(*     (src/agent/api/transactions.py) on the shapes a response can have;  *)
(*   - FlowSpec: the commands of Agent (src/agent/agent.py) and the gas    *)
(*     check they start with.                                              *)
(*                                                                         *)
(* The remote API, the x402 library and the chain RPC are the environment: *)
(* every answer they can give is drawn nondeterministically.               *)
(***************************************************************************)
EXTENDS Integers, Sequences, FiniteSets, TLC

\* ------------------------------------------------------------------ bounds

\* request() calls made on one client in a behaviour
MaxCalls == 2
\* payment options listed by one 402 challenge
MaxAccepts == 2
\* steps of one execute_multiple sequence
MaxSteps == 3
\* entries of the actions list of one payload response
MaxActions == 2

\* --------------------------------------------------------- client: values

Endpoints == {"/positions", "/deposit"}
ParamSets == {"q1", "q2"}
BaseUrl == "https://api.vaults.fyi"

\* self.base_url + endpoint (client.py:33); a url is the pair, so two
\* endpoints never give the same url
UrlOf(endpoint) == <<BaseUrl, endpoint>>

FirstTimeout == 10
DefaultTimeout == 60

Statuses == {200, 402, 500, 404}

\* A JSON document.  "data" is any JSON value that is not a payment
\* challenge; "challenge" is a body x402PaymentRequiredResponse accepts.
\* Which of its accepted options is chosen is the answer of the x402
\* library's selector: an option is named by its place, 1..MaxAccepts.
NoDoc == [kind |-> "none", id |-> 0]
DataDocs == {[kind |-> "data", id |-> k] : k \in {1, 2}}
ChallengeDocs == {[kind |-> "challenge", id |-> 0]}
Docs == DataDocs \cup ChallengeDocs

\* A response body as text: empty, text that is not JSON, or JSON text.
Bodies ==
    {[text |-> "empty", doc |-> NoDoc], [text |-> "garbage", doc |-> NoDoc]}
        \cup {[text |-> "json", doc |-> d] : d \in Docs}

\* The x-payment-response header of a response: absent; present but not
\* base64 of JSON; JSON that is no object (no .get); an object whose
\* 'success' is truthy; an object whose 'success' is falsy or missing.
Receipts == {"absent", "undecodable", "not_object", "success", "no_success"}

NoResp == [status |-> 0, body |-> [text |-> "empty", doc |-> NoDoc], receipt |-> "absent"]
\* status 0 stands for requests.get raising (timeout, connection error)
NetErr == NoResp
HttpResponses == [status : Statuses, body : Bodies, receipt : Receipts]
\* make_request reads no header of the first response
FirstResponses == {r \in HttpResponses : r.receipt \in {"absent", "success"}}

\* response.json(): the parsed body, or a decode error
json(resp) ==
    IF resp.body.text = "json"
    THEN [ok |-> TRUE, val |-> resp.body.doc]
    ELSE [ok |-> FALSE, val |-> NoDoc]

\* bool(response.text)
HasText(resp) == resp.body.text # "empty"


\* json.loads(safe_base64_decode(header)).get('success') (client.py:82-85):
\* "raise" when decoding, parsing or .get raises, else whether it is truthy
ReceiptSuccess(resp) ==
    CASE resp.receipt = "success" -> "truthy"
      [] resp.receipt = "no_success" -> "falsy"
      [] OTHER -> "raise"

\* ---------------------------------------------------- executor: variables

VARIABLES
    ex,         \* per executor: [pc, tx_payloads, i, tx_hashes, transaction, error]
    rpc,        \* per executor, every call it made on the chain RPC or the signer, in
                \* order: [step, op, view, tx, outcome], the outcome "ok" or how it failed
    count,      \* the chain: the account's transaction count at "latest"
    pool,       \* the chain: broadcast transactions not mined yet
    receipts    \* the chain: [tx, status] of every mined transaction

execVars == <<ex, rpc, count, pool, receipts>>

\* ------------------------------------------------------ client: variables

VARIABLES
    cpc,        \* where make_request stands: "idle", "await_first", "await_paid"
    calls,      \* make_request calls started so far
    req,        \* the current call's [url, params, timeout]
    http,       \* every GET sent, in order: [call, url, params, proof, timeout]
    proofs,     \* every X-Payment header built: [call]; its id is its place
    selected,   \* select_payment_requirements in this call: NotCalled, 0 (it raised), or the option
    first,      \* the response to the current call's first GET
    paid,       \* the response to the current call's paid GET
    result      \* how the current call ended: [kind, val, err, status, body]

clientVars == <<cpc, calls, req, http, proofs, selected, first, paid, result>>

\* ------------------------------------------- approval buffer: variables

VARIABLES
    transactions,   \* the payload list handed to increase_approval_buffer
    buffered,       \* what increase_approval_buffer answered: [kind, val, err]
    deposit_response, \* generate_deposit_tx's response (transactions.py:38)
    generated       \* what generate_deposit_tx answered: [kind, val, err]

utilVars == <<transactions, buffered, deposit_response, generated>>

NotRun == [kind |-> "pending", val |-> <<>>, err |-> ""]
\* no response yet
NoResponse == [type |-> "none", actions_type |-> "missing", actions |-> <<>>]
UtilIdle ==
    /\ transactions = <<>> /\ buffered = NotRun
    /\ deposit_response = NoResponse /\ generated = NotRun

\* ------------------------------------------------- orchestrator: variables

VARIABLES
    balance,    \* the chain: the wallet's native balance in wei
    cmd,        \* the Agent command running: "none", "deploy_capital", "redeem", "redeem_all"
    apc,        \* where the command stands
    locals,     \* its local variables
    trace       \* every call the Agent made on executor or API and every outcome
                \* it printed, in order: [kind, op, arg, n]

agentVars == <<balance, cmd, apc, locals, trace>>

NoLocals ==
    [nickname |-> "", percentage |-> 0, deploy_amount_usd |-> 0, vault |-> "",
     transactions |-> 0, attempt |-> 0, positions |-> <<>>, position |-> ""]
\* no command given yet
AgentIdle ==
    /\ balance = <<>>
    /\ cmd = "none"
    /\ apc = "idle"
    /\ locals = NoLocals
    /\ trace = <<>>

NotCalled == -1
NoReq == [url |-> <<BaseUrl, "">>, params |-> "", timeout |-> 0]
Pending == [kind |-> "pending", val |-> NoDoc, err |-> "", status |-> 0, body |-> NoResp.body]
Return(doc) == [kind |-> "return", val |-> doc, err |-> "", status |-> 0, body |-> NoResp.body]
\* an exception of a library call, propagated as it is
Raise(err) == [kind |-> "raise", val |-> NoDoc, err |-> err, status |-> 0, body |-> NoResp.body]
\* Exception(f"<err>: {status_code} {text}") (client.py:52, client.py:101)
RaiseStatus(err, resp) ==
    [kind |-> "raise", val |-> NoDoc, err |-> err, status |-> resp.status, body |-> resp.body]

ClientInit ==
    /\ cpc = "idle"
    /\ calls = 0
    /\ req = NoReq
    /\ http = <<>>
    /\ proofs = <<>>
    /\ selected = NotCalled
    /\ first = NoResp
    /\ paid = NoResp
    /\ result = Pending

\* requests.get(url, params=params, headers=..., timeout=t): one entry of http
Get(call, r, proof, t) ==
    [call |-> call, url |-> r.url, params |-> r.params, proof |-> proof, timeout |-> t]

\* ------------------------------------------------------- client: actions

\* make_request up to the first requests.get (client.py:33-41)
make_request(endpoint, params, timeout) ==
    /\ cpc = "idle"
    /\ calls < MaxCalls
    /\ calls' = calls + 1
    /\ req' = [url |-> UrlOf(endpoint), params |-> params, timeout |-> timeout]
    /\ http' = Append(http, Get(calls + 1, req', 0, FirstTimeout))
    /\ cpc' = "await_first"
    /\ selected' = NotCalled
    /\ first' = NoResp
    /\ paid' = NoResp
    /\ result' = Pending
    /\ UNCHANGED <<proofs, execVars, utilVars, agentVars>>

\* a client that pays whenever the answer is not a 200
NeedsPayment_not200(response) == response.status # 200
\* "if response.status_code == 402" (client.py:44)
NeedsPayment_also200(response) == response.status \in {402, 200}
NeedsPayment(response) == response.status = 402

\* select_payment_requirements raised (client.py:62): nothing catches it
SelectRaises_swallowed(sel) == FALSE
SelectRaises(sel) == sel = 0

\* the paid GET (client.py:71-77): same url, same params, the header attached
PaidGet_noParams(proof) ==
    [call |-> calls, url |-> req.url, params |-> "", proof |-> proof, timeout |-> req.timeout]
PaidGet(proof) == Get(calls, req, proof, req.timeout)

\* x402PaymentRequiredResponse(**payment_data) (client.py:59) accepts the body
IsChallenge_unchecked(payment_data) == TRUE
IsChallenge(payment_data) == payment_data.kind = "challenge"

\* _handle_payment_and_retry up to the paid requests.get (client.py:54-77).
\* sel is what select_payment_requirements answers (0: it raises, else the
\* place of the option it returns), signed whether create_payment_header
\* returns a header.
handle_payment_and_retry(initial_response, sel, signed) ==
    LET payment_data == json(initial_response) IN
    IF ~payment_data.ok
    THEN /\ result' = Raise("JSONDecodeError")
         /\ cpc' = "idle"
         /\ UNCHANGED <<http, proofs, selected>>
    ELSE IF ~IsChallenge(payment_data.val)
    THEN /\ result' = Raise("ValidationError")
         /\ cpc' = "idle"
         /\ UNCHANGED <<http, proofs, selected>>
    ELSE IF SelectRaises(sel)
    THEN /\ result' = Raise("UnsupportedSchemeException")
         /\ selected' = 0
         /\ cpc' = "idle"
         /\ UNCHANGED <<http, proofs>>
    ELSE IF ~signed
    THEN /\ result' = Raise("SigningError")
         /\ selected' = sel
         /\ cpc' = "idle"
         /\ UNCHANGED <<http, proofs>>
    ELSE /\ selected' = sel
         /\ proofs' = Append(proofs, [call |-> calls])
         /\ http' = Append(http, PaidGet(Len(proofs) + 1))
         /\ cpc' = "await_paid"
         /\ result' = Pending

\* make_request from the first response on (client.py:41-52)
make_request_response(response, sel, signed) ==
    /\ cpc = "await_first"
    /\ first' = response
    /\ UNCHANGED <<calls, req, paid, execVars, utilVars, agentVars>>
    /\ IF response = NetErr
       THEN /\ result' = Raise("RequestException")
            /\ cpc' = "idle"
            /\ UNCHANGED <<http, proofs, selected>>
       ELSE IF NeedsPayment(response)
       THEN handle_payment_and_retry(response, sel, signed)
       ELSE IF response.status = 200
       THEN /\ result' = (IF json(response).ok THEN Return(json(response).val)
                          ELSE Raise("JSONDecodeError"))
            /\ cpc' = "idle"
            /\ UNCHANGED <<http, proofs, selected>>
       ELSE /\ result' = RaiseStatus("API request failed", response)
            /\ cpc' = "idle"
            /\ UNCHANGED <<http, proofs, selected>>

\* the tolerated 500 (client.py:80-94): the body to return, if any
Tolerated500_never(paid_response) == [ok |-> FALSE, val |-> NoDoc]
Tolerated500_anyReceipt(paid_response) ==
    IF /\ paid_response.status = 500
       /\ paid_response.receipt # "absent"
       /\ HasText(paid_response)
       /\ json(paid_response).ok
    THEN [ok |-> TRUE, val |-> json(paid_response).val]
    ELSE [ok |-> FALSE, val |-> NoDoc]
\* a tolerance that looks at the receipt and not at the status
Tolerated500_anyStatus(paid_response) ==
    IF /\ paid_response.status # 200
       /\ ReceiptSuccess(paid_response) = "truthy"
       /\ HasText(paid_response)
       /\ json(paid_response).ok
    THEN [ok |-> TRUE, val |-> json(paid_response).val]
    ELSE [ok |-> FALSE, val |-> NoDoc]
\* a tolerance that returns whatever the body holds
Tolerated500_anyBody(paid_response) ==
    IF /\ paid_response.status = 500
       /\ ReceiptSuccess(paid_response) = "truthy"
    THEN [ok |-> TRUE, val |-> json(paid_response).val]
    ELSE [ok |-> FALSE, val |-> NoDoc]
Tolerated500(paid_response) ==
    IF /\ paid_response.status = 500
       /\ paid_response.receipt # "absent"
       /\ ReceiptSuccess(paid_response) = "truthy"
       /\ HasText(paid_response)
       /\ json(paid_response).ok
    THEN [ok |-> TRUE, val |-> json(paid_response).val]
    ELSE [ok |-> FALSE, val |-> NoDoc]

\* a handler that answers a second 402 by paying again
handle_paid_response_repay(paid_response) ==
    /\ cpc = "await_paid"
    /\ paid' = paid_response
    /\ UNCHANGED <<calls, req, selected, first, execVars, utilVars, agentVars>>
    /\ IF paid_response.status = 402
       THEN /\ proofs' = Append(proofs, [call |-> calls])
            /\ http' = Append(http, PaidGet(Len(proofs) + 1))
            /\ UNCHANGED <<cpc, result>>
       ELSE /\ cpc' = "idle"
            /\ result' = RaiseStatus("Payment verification failed", paid_response)
            /\ UNCHANGED <<http, proofs>>

\* _handle_payment_and_retry from the paid response on (client.py:77-101)
handle_paid_response(paid_response) ==
    /\ cpc = "await_paid"
    /\ paid' = paid_response
    /\ cpc' = "idle"
    /\ UNCHANGED <<calls, req, http, proofs, selected, first, execVars, utilVars, agentVars>>
    /\ result' =
         IF paid_response = NetErr THEN Raise("RequestException")
         ELSE IF Tolerated500(paid_response).ok THEN Return(Tolerated500(paid_response).val)
         ELSE IF paid_response.status = 200
         THEN (IF json(paid_response).ok THEN Return(json(paid_response).val)
               ELSE Raise("JSONDecodeError"))
         ELSE RaiseStatus("Payment verification failed", paid_response)

ClientNext ==
    \/ \E endpoint \in Endpoints, params \in ParamSets :
          make_request(endpoint, params, DefaultTimeout)
    \/ \E response \in FirstResponses \cup {NetErr}, sel \in 0..MaxAccepts, signed \in BOOLEAN :
          make_request_response(response, sel, signed)
    \/ \E response \in HttpResponses \cup {NetErr} : handle_paid_response(response)

\* ------------------------------------------------------- executor: values

\* the wallets' executors; the specifications say which of them run
Execs == {1, 2}

\* a payload {to, data, value} the transaction API produced
Payloads == {"approve", "deposit"}
PayloadSeqs == UNION {[1..n -> Payloads] : n \in 0..MaxSteps}

\* the account's transaction count when the behaviour starts
InitialCounts == {0, 1}
GasEstimates == {21000, 45001}
GasPrices == {7}

\* int(gas_estimate * 1.5) (executor.py:95)
GasLimit(gas_estimate) == (gas_estimate * 3) \div 2

NoTx == [payload |-> "", nonce |-> -1, gas |-> 0, gasPrice |-> 0]
\* tx_hash.hex(): the identifier of a signed transaction, one per content
TxHash(tx) == <<"0x", tx.payload, tx.nonce, tx.gas, tx.gasPrice>>
NoHash == TxHash(NoTx)

\* str(e) of what execute raised: the message and the hash it names, if any
Cause(msg, hash) == [msg |-> msg, hash |-> hash]
NoError ==
    [kind |-> "none", type |-> "", index |-> 0, previous |-> <<>>, cause |-> Cause("", NoHash)]

\* the class of what execute raises: Exception at executor.py:97 and :113,
\* else the class the library call raised (web3's TimeExhausted at :111)
ExecuteRaises(cause) ==
    CASE cause.msg \in {"Gas estimation failed", "Transaction failed"} -> "Exception"
      [] cause.msg = "TimeExhausted" -> "TimeExhausted"
      [] OTHER -> "LibraryError"

Idle ==
    [pc |-> "idle", tx_payloads |-> <<>>, i |-> 0, tx_hashes |-> <<>>,
     transaction |-> NoTx, gas_estimate |-> 0, error |-> NoError]

ExecInit ==
    /\ ex = [e \in Execs |-> Idle]
    /\ rpc = [e \in Execs |-> <<>>]
    /\ count \in InitialCounts
    /\ pool = {}
    /\ receipts = {}

\* get_transaction_count(address, 'latest')
LatestCount == count

\* get_transaction_count(address, 'pending'): the mined transactions and
\* the pool's transactions that follow them without a gap
RECURSIVE PendingFrom(_)
PendingFrom(n) == IF \E t \in pool : t.nonce = n THEN PendingFrom(n + 1) ELSE n
PendingCount == PendingFrom(count)

\* "use_pending = i > 0" (executor.py:128)
use_pending_never(i) == FALSE
use_pending(i) == i > 0

\* "nonce_block = 'pending' if use_pending_nonce else 'latest'" (executor.py:79)
nonce_block(use_pending_nonce) == IF use_pending_nonce THEN "pending" ELSE "latest"

\* "wait_for_confirmation=True" (executor.py:129)
wait_for_confirmation_off == FALSE
wait_for_confirmation == TRUE

Call(e, op, view, tx, outcome) ==
    [step |-> ex[e].i, op |-> op, view |-> view, tx |-> tx, outcome |-> outcome]
Logged(e, call) == [rpc EXCEPT ![e] = Append(@, call)]

\* the except clause of execute_multiple (executor.py:131-140): what is raised
SequenceFailure_withCurrent(e, cause) ==
    IF ex[e].i > 0
    THEN [kind |-> "sequence", type |-> "Exception", index |-> ex[e].i + 1,
          previous |-> Append(ex[e].tx_hashes, TxHash(ex[e].transaction)), cause |-> cause]
    ELSE [kind |-> "first", type |-> "Exception", index |-> ex[e].i + 1,
          previous |-> <<>>, cause |-> cause]
\* a first-step failure that reports the transaction it was working on
SequenceFailure_firstListed(e, cause) ==
    IF ex[e].i > 0
    THEN [kind |-> "sequence", type |-> "Exception", index |-> ex[e].i + 1,
          previous |-> ex[e].tx_hashes, cause |-> cause]
    ELSE [kind |-> "first", type |-> "Exception", index |-> ex[e].i + 1,
          previous |-> <<TxHash(ex[e].transaction)>>, cause |-> cause]
SequenceFailure(e, cause) ==
    IF ex[e].i > 0
    THEN [kind |-> "sequence", type |-> "Exception", index |-> ex[e].i + 1,
          previous |-> ex[e].tx_hashes, cause |-> cause]
    ELSE [kind |-> "first", type |-> "Exception", index |-> ex[e].i + 1,
          previous |-> <<>>, cause |-> cause]

\* a loop that goes on to the next payload after a failure
Failed_continue(e, cause) ==
    IF ex[e].i + 1 < Len(ex[e].tx_payloads)
    THEN [ex[e] EXCEPT !.pc = "count", !.i = @ + 1, !.transaction = NoTx, !.gas_estimate = 0]
    ELSE [ex[e] EXCEPT !.pc = "raised", !.error = SequenceFailure(e, cause)]
\* execute raised in step i: execute_multiple raises (executor.py:131-140)
Failed(e, cause) ==
    [ex[e] EXCEPT !.pc = "raised", !.error = SequenceFailure(e, cause)]

\* a loop that puts the newest identifier first
Succeeded_prepend(e, tx_hash) ==
    [ex[e] EXCEPT !.tx_hashes = <<tx_hash>> \o @,
                  !.i = @ + 1,
                  !.transaction = NoTx,
                  !.gas_estimate = 0,
                  !.pc = IF ex[e].i + 1 < Len(ex[e].tx_payloads) THEN "count" ELSE "returned"]

\* execute returned tx_hash in step i (executor.py:129-130, 125, 142)
Succeeded(e, tx_hash) ==
    [ex[e] EXCEPT !.tx_hashes = Append(@, tx_hash),
                  !.i = @ + 1,
                  !.transaction = NoTx,
                  !.gas_estimate = 0,
                  !.pc = IF ex[e].i + 1 < Len(ex[e].tx_payloads) THEN "count" ELSE "returned"]

\* ------------------------------------------------------ executor: actions

\* execute_multiple is called (executor.py:117-125)
execute_multiple(e, tx_payloads) ==
    /\ ex[e].pc = "idle"
    /\ ex' = [ex EXCEPT ![e] = [Idle EXCEPT !.tx_payloads = tx_payloads,
                                           !.pc = IF tx_payloads = <<>> THEN "returned" ELSE "count"]]
    /\ UNCHANGED <<rpc, count, pool, receipts, clientVars, utilVars, agentVars>>

\* an execute that keeps the count it read for the first step of the sequence
build_transaction_nonceOnce(e, ok) ==
    LET view == nonce_block(use_pending(ex[e].i))
        nonce == LatestCount - ex[e].i
    IN  /\ ex[e].pc = "count"
        /\ rpc' = Logged(e, Call(e, "get_transaction_count", view, NoTx,
                                   IF ok THEN "ok" ELSE "raise"))
        /\ ex' = [ex EXCEPT ![e] =
                    IF ok
                    THEN [@ EXCEPT !.pc = "estimate",
                                   !.transaction = [NoTx EXCEPT !.payload = ex[e].tx_payloads[ex[e].i + 1],
                                                                !.nonce = nonce]]
                    ELSE Failed(e, Cause("RPC error", NoHash))]
        /\ UNCHANGED <<count, pool, receipts, clientVars, utilVars, agentVars>>

\* an execute that skips the nonces other executors hold and have not sent
build_transaction_reserving(e, ok) ==
    LET view == nonce_block(use_pending(ex[e].i))
        held == {o \in Execs \ {e} : ex[o].pc \in {"estimate", "gas_price", "sign", "send"}}
        nonce == (IF view = "pending" THEN PendingCount ELSE LatestCount) + Cardinality(held)
    IN  /\ ex[e].pc = "count"
        /\ rpc' = Logged(e, Call(e, "get_transaction_count", view, NoTx,
                                   IF ok THEN "ok" ELSE "raise"))
        /\ ex' = [ex EXCEPT ![e] =
                    IF ok
                    THEN [@ EXCEPT !.pc = "estimate",
                                   !.transaction = [NoTx EXCEPT !.payload = ex[e].tx_payloads[ex[e].i + 1],
                                                                !.nonce = nonce]]
                    ELSE Failed(e, Cause("RPC error", NoHash))]
        /\ UNCHANGED <<count, pool, receipts, clientVars, utilVars, agentVars>>

\* execute builds the transaction (executor.py:79-89); ok: the count and the
\* chain id were read and the payload's fields were there
build_transaction(e, ok) ==
    LET view == nonce_block(use_pending(ex[e].i))
        nonce == IF view = "pending" THEN PendingCount ELSE LatestCount
    IN  /\ ex[e].pc = "count"
        /\ rpc' = Logged(e, Call(e, "get_transaction_count", view, NoTx,
                                   IF ok THEN "ok" ELSE "raise"))
        /\ ex' = [ex EXCEPT ![e] =
                    IF ok
                    THEN [@ EXCEPT !.pc = "estimate",
                                   !.transaction = [NoTx EXCEPT !.payload = ex[e].tx_payloads[ex[e].i + 1],
                                                                !.nonce = nonce]]
                    ELSE Failed(e, Cause("RPC error", NoHash))]
        /\ UNCHANGED <<count, pool, receipts, clientVars, utilVars, agentVars>>

\* an execute that answers a failed estimate with a default limit and goes on
estimate_gas_blind(e, gas_estimate) ==
    /\ ex[e].pc = "estimate"
    /\ rpc' = Logged(e, Call(e, "estimate_gas", "", ex[e].transaction,
                               IF gas_estimate > 0 THEN "ok" ELSE "raise"))
    /\ ex' = [ex EXCEPT ![e] =
                [@ EXCEPT !.pc = "gas_price",
                          !.gas_estimate = gas_estimate,
                          !.transaction.gas = GasLimit(IF gas_estimate > 0 THEN gas_estimate ELSE 21000)]]
    /\ UNCHANGED <<count, pool, receipts, clientVars, utilVars, agentVars>>

\* execute estimates gas (executor.py:91-97); estimate 0: estimate_gas raised
estimate_gas(e, gas_estimate) ==
    /\ ex[e].pc = "estimate"
    /\ rpc' = Logged(e, Call(e, "estimate_gas", "", ex[e].transaction,
                               IF gas_estimate > 0 THEN "ok" ELSE "raise"))
    /\ ex' = [ex EXCEPT ![e] =
                IF gas_estimate > 0
                THEN [@ EXCEPT !.pc = "gas_price",
                               !.gas_estimate = gas_estimate,
                               !.transaction.gas = GasLimit(gas_estimate)]
                ELSE Failed(e, Cause("Gas estimation failed", NoHash))]
    /\ UNCHANGED <<count, pool, receipts, clientVars, utilVars, agentVars>>

\* execute reads the gas price (executor.py:100); price 0: the RPC raised
gas_price(e, price) ==
    /\ ex[e].pc = "gas_price"
    /\ rpc' = Logged(e, Call(e, "gas_price", "", ex[e].transaction,
                               IF price > 0 THEN "ok" ELSE "raise"))
    /\ ex' = [ex EXCEPT ![e] =
                IF price > 0
                THEN [@ EXCEPT !.pc = "sign", !.transaction.gasPrice = price]
                ELSE Failed(e, Cause("RPC error", NoHash))]
    /\ UNCHANGED <<count, pool, receipts, clientVars, utilVars, agentVars>>

\* execute signs (executor.py:103, wallet.py); ok: the signer returned
sign_transaction(e, ok) ==
    /\ ex[e].pc = "sign"
    /\ rpc' = Logged(e, Call(e, "sign_transaction", "", ex[e].transaction,
                               IF ok THEN "ok" ELSE "raise"))
    /\ ex' = [ex EXCEPT ![e] =
                IF ok THEN [@ EXCEPT !.pc = "send"]
                ELSE Failed(e, Cause("signing error", NoHash))]
    /\ UNCHANGED <<count, pool, receipts, clientVars, utilVars, agentVars>>

\* the node takes a transaction whose nonce is not used up and not in the pool
NodeAccepts(tx) == tx.nonce >= count /\ ~\E t \in pool : t.nonce = tx.nonce

\* execute broadcasts (executor.py:106-110); ok: the node did not refuse for
\* a reason of its own (funds, RPC error)
send_raw_transaction(e, ok) ==
    LET tx == ex[e].transaction
        taken == ok /\ NodeAccepts(tx)
    IN  /\ ex[e].pc = "send"
        /\ rpc' = Logged(e, Call(e, "send_raw_transaction", "", tx,
                                   IF taken THEN "ok" ELSE "raise"))
        /\ pool' = IF taken THEN pool \cup {tx} ELSE pool
        /\ ex' = [ex EXCEPT ![e] =
                    IF ~taken THEN Failed(e, Cause("RPC error", NoHash))
                    ELSE IF wait_for_confirmation THEN [@ EXCEPT !.pc = "wait"]
                    ELSE Succeeded(e, TxHash(tx))]
        /\ UNCHANGED <<count, receipts, clientVars, utilVars, agentVars>>

\* a wait that takes any receipt for a confirmation
receipt_arrives_anyStatus(e) ==
    LET tx == ex[e].transaction IN
    /\ ex[e].pc = "wait"
    /\ \E r \in receipts :
          /\ r.tx = tx
          /\ rpc' = Logged(e, Call(e, "wait_for_transaction_receipt", "", tx,
                                     IF r.status = 1 THEN "ok" ELSE "reverted"))
          /\ ex' = [ex EXCEPT ![e] = Succeeded(e, TxHash(tx))]
    /\ UNCHANGED <<count, pool, receipts, clientVars, utilVars, agentVars>>

\* wait_for_transaction_receipt returns a receipt (executor.py:111-115)
receipt_arrives(e) ==
    LET tx == ex[e].transaction IN
    /\ ex[e].pc = "wait"
    /\ \E r \in receipts :
          /\ r.tx = tx
          /\ rpc' = Logged(e, Call(e, "wait_for_transaction_receipt", "", tx,
                                     IF r.status = 1 THEN "ok" ELSE "reverted"))
          /\ ex' = [ex EXCEPT ![e] =
                      IF r.status # 1
                      THEN Failed(e, Cause("Transaction failed", TxHash(tx)))
                      ELSE Succeeded(e, TxHash(tx))]
    /\ UNCHANGED <<count, pool, receipts, clientVars, utilVars, agentVars>>

\* wait_for_transaction_receipt gives up after its 120 s (executor.py:111)
receipt_timeout(e) ==
    LET tx == ex[e].transaction IN
    /\ ex[e].pc = "wait"
    /\ ~\E r \in receipts : r.tx = tx
    /\ rpc' = Logged(e, Call(e, "wait_for_transaction_receipt", "", tx, "timeout"))
    /\ ex' = [ex EXCEPT ![e] = Failed(e, Cause("TimeExhausted", NoHash))]
    /\ UNCHANGED <<count, pool, receipts, clientVars, utilVars, agentVars>>

\* the caller's except clause (agent.py:185-188, the same at 289-292): the
\* failure is printed and the flow returns; nothing is sent to the chain
deploy_capital_except(e) ==
    /\ ex[e].pc = "raised"
    /\ ex' = [ex EXCEPT ![e].pc = "reported"]
    /\ UNCHANGED <<rpc, count, pool, receipts, clientVars, utilVars, agentVars>>

\* the chain mines the pool's next transaction, with success (1) or not (0)
Mine(tx, status) ==
    /\ tx \in pool
    /\ tx.nonce = count
    /\ count' = count + 1
    /\ pool' = pool \ {tx}
    /\ receipts' = receipts \cup {[tx |-> tx, status |-> status]}
    /\ UNCHANGED <<ex, rpc, clientVars, utilVars, agentVars>>

ExecStep(e) ==
    \/ \E tx_payloads \in PayloadSeqs : execute_multiple(e, tx_payloads)
    \/ \E ok \in BOOLEAN : build_transaction(e, ok)
    \/ \E gas_estimate \in GasEstimates \cup {0} : estimate_gas(e, gas_estimate)
    \/ \E price \in GasPrices \cup {0} : gas_price(e, price)
    \/ \E ok \in BOOLEAN : sign_transaction(e, ok)
    \/ \E ok \in BOOLEAN : send_raw_transaction(e, ok)
    \/ receipt_arrives(e)
    \/ receipt_timeout(e)
    \/ deploy_capital_except(e)

ChainStep == \E tx \in pool, status \in {0, 1} : Mine(tx, status)

\* one executor runs: the single thread of control per wallet
ExecNext == (\E e \in {1} : ExecStep(e)) \/ ChainStep

vars == <<clientVars, execVars, utilVars, agentVars>>

Init == ClientInit /\ ExecInit /\ UtilIdle /\ AgentIdle

\* the client alone; the chain, which it never touches, starts at count 0
ClientOnlyInit == Init /\ count = 0
ClientSpec == ClientOnlyInit /\ [][ClientNext]_vars

ExecSpec == Init /\ [][ExecNext]_vars

\* two processes, each with its own TransactionExecutor on the same wallet
\* (executor.py:19-29 keeps no state shared between executors), each running
\* a sequence of one payload
RacePayloadSeqs == {<<payload>> : payload \in Payloads}
RaceStep(e) ==
    \/ \E tx_payloads \in RacePayloadSeqs : execute_multiple(e, tx_payloads)
    \/ \E ok \in BOOLEAN : build_transaction(e, ok)
    \/ \E gas_estimate \in GasEstimates \cup {0} : estimate_gas(e, gas_estimate)
    \/ \E price \in GasPrices \cup {0} : gas_price(e, price)
    \/ \E ok \in BOOLEAN : sign_transaction(e, ok)
    \/ \E ok \in BOOLEAN : send_raw_transaction(e, ok)
    \/ receipt_arrives(e)
    \/ receipt_timeout(e)
    \/ deploy_capital_except(e)
RaceNext == (\E e \in Execs : RaceStep(e)) \/ ChainStep
RaceInit == Init
RaceSpec == RaceInit /\ [][RaceNext]_vars


\* ---------------------------------------------------- client: properties

\* the GETs and the payment headers of call c
GetsOf(c) == {k \in 1..Len(http) : http[k].call = c}
ProofsOf(c) == {k \in 1..Len(proofs) : proofs[k].call = c}
\* the current call has ended
Ended == cpc = "idle" /\ calls > 0
PaymentVerificationFailed(r) == r.kind = "raise" /\ r.err = "Payment verification failed"

\* C1 as stated: whenever the first response of a request() call has status
\* 200, the call returns the parsed body of that response, builds no payment
\* proof and issues no second GET.
C1_Returns200 ==
    (Ended /\ first.status = 200) =>
        /\ result.kind = "return"
        /\ result.val = first.body.doc
        /\ ProofsOf(calls) = {}
        /\ Cardinality(GetsOf(calls)) = 1

\* C1 amended: a first response of status 200 never leads to a payment proof
\* or a second GET; the call returns the parsed body when the body is JSON,
\* and raises the decode error of response.json() when it is not.
C1_Returns200Parseable ==
    (Ended /\ first.status = 200) =>
        /\ ProofsOf(calls) = {}
        /\ Cardinality(GetsOf(calls)) = 1
        /\ paid = NoResp
        /\ json(first).ok => result = Return(first.body.doc)
        /\ ~json(first).ok => result = Raise("JSONDecodeError")

C1_Witness ==
    /\ Ended
    /\ first.status = 200
    /\ first.body.doc = [kind |-> "data", id |-> 2]
    /\ result.kind = "return"
    /\ calls = 2

\* C2: in every request() call, whatever the server answers, at most two
\* GETs are issued and at most one payment proof is built; once the paid
\* retry is answered (200, tolerated 500, any failure status) the call is
\* over and has sent nothing more.
C2_AtMostOneRetry ==
    /\ \A c \in 1..calls :
          /\ Cardinality(GetsOf(c)) <= 2
          /\ Cardinality(ProofsOf(c)) <= 1
          /\ Cardinality(GetsOf(c)) = 1 + Cardinality(ProofsOf(c))
    /\ paid # NoResp => Ended /\ Cardinality(GetsOf(calls)) = 2

C2_Witness ==
    /\ Ended
    /\ paid.status = 402
    /\ Cardinality(GetsOf(calls)) = 2
    /\ Cardinality(ProofsOf(calls)) = 1

\* the first GET of call c: the request whose 402 response produced the proof
FirstGetOf(c) == http[CHOOSE k \in GetsOf(c) : \A j \in GetsOf(c) : k <= j]

\* C3: across the calls made, every payment proof is attached to exactly one
\* GET, which has the url and the query parameters of the request whose 402
\* produced the proof and belongs to the same call; no proof of an earlier
\* call is attached by a later one, which builds its own.
C3_ProofBoundToRequest ==
    \A p \in 1..Len(proofs) :
        LET uses == {k \in 1..Len(http) : http[k].proof = p} IN
        /\ Cardinality(uses) = 1
        /\ \A k \in uses :
              /\ http[k].call = proofs[p].call
              /\ http[k].url = FirstGetOf(proofs[p].call).url
              /\ http[k].params = FirstGetOf(proofs[p].call).params
              /\ FirstGetOf(proofs[p].call).proof = 0
        /\ \A q \in 1..Len(proofs) : q # p => proofs[q].call # proofs[p].call

C3_Witness ==
    /\ Len(proofs) = 2
    /\ Len(http) = 4
    /\ http[2].proof = 1 /\ http[4].proof = 2
    /\ http[2].url # http[4].url
    /\ http[2].params # http[4].params

\* C4: when the first response is 402 and the selector finds no acceptable
\* payment option in the challenge, request() fails with the selector's
\* error, builds no proof and makes no second GET.
C4_NoAcceptableOption ==
    (Ended /\ first.status = 402 /\ selected = 0) =>
        /\ result = Raise("UnsupportedSchemeException")
        /\ ProofsOf(calls) = {}
        /\ Cardinality(GetsOf(calls)) = 1
        /\ paid = NoResp

C4_Witness ==
    /\ Ended
    /\ first.status = 402
    /\ json(first).val.kind = "challenge"
    /\ selected = 0
    /\ result.kind = "raise"

\* C20: when the first response is 402 and its body is no payment challenge
\* (not JSON, or JSON the challenge model rejects) request() fails with the
\* parse error, asks the selector nothing, builds no proof and makes no
\* second GET.
C20_MalformedChallenge ==
    (Ended /\ first.status = 402 /\ json(first).val.kind # "challenge") =>
        /\ result = (IF json(first).ok THEN Raise("ValidationError") ELSE Raise("JSONDecodeError"))
        /\ selected = NotCalled
        /\ ProofsOf(calls) = {}
        /\ Cardinality(GetsOf(calls)) = 1
        /\ paid = NoResp

C20_Witness ==
    /\ Ended
    /\ first.status = 402
    /\ json(first).ok
    /\ json(first).val.kind = "data"
    /\ result = Raise("ValidationError")
    /\ Len(http) = 1

\* C5: when the paid retry is answered 500 with a payment-receipt header
\* that decodes to a receipt marked successful and a body that parses as
\* JSON, request() returns that parsed body.
C5_Tolerated500 ==
    (Ended /\ paid.status = 500 /\ paid.receipt = "success" /\ paid.body.text = "json") =>
        result = Return(paid.body.doc)

C5_Witness ==
    /\ Ended
    /\ paid.status = 500
    /\ paid.receipt = "success"
    /\ paid.body.doc = [kind |-> "data", id |-> 1]
    /\ result.kind = "return"

\* C6: when the paid retry is answered 500 without a success receipt (no
\* header, a header that is not base64 of JSON, a receipt not marked
\* successful), request() fails with the verification failure carrying the
\* status and the body, and returns nothing, whatever the body holds.
C6_No500WithoutReceipt ==
    (Ended /\ paid.status = 500 /\ paid.receipt # "success") =>
        /\ PaymentVerificationFailed(result)
        /\ result.status = 500
        /\ result.body = paid.body
        /\ result.val = NoDoc

C6_Witness ==
    /\ Ended
    /\ paid.status = 500
    /\ paid.receipt = "undecodable"
    /\ paid.body.text = "json"
    /\ result.kind = "raise"

\* C21: when the paid retry is answered with a status other than 200 and the
\* tolerated 500 does not apply (a second 402, a non-500 status with a
\* success receipt, a 500 without one), request() fails with the
\* verification failure carrying the status and the body of that response,
\* and sends nothing more.
C21_PaidRetryRejected ==
    (/\ Ended /\ paid # NoResp
     /\ paid.status # 200
     /\ ~(paid.status = 500 /\ paid.receipt = "success" /\ paid.body.text = "json")) =>
        /\ result = RaiseStatus("Payment verification failed", paid)
        /\ result.status = paid.status /\ result.body = paid.body
        /\ Cardinality(GetsOf(calls)) = 2
        /\ Cardinality(ProofsOf(calls)) = 1

C21_Witness ==
    /\ Ended
    /\ paid.status = 402
    /\ paid.receipt = "success"
    /\ paid.body.text = "json"
    /\ result.kind = "raise"
    /\ result.status = 402

\* C23: when the paid retry is answered 500 with a success receipt and a
\* body that is empty or no JSON, request() returns nothing and pays no
\* second time: it raises the verification failure with status and body.
C23_Tolerated500BadBody ==
    (Ended /\ paid.status = 500 /\ paid.receipt = "success" /\ paid.body.text # "json") =>
        /\ result.kind = "raise"
        /\ result.val = NoDoc
        /\ result = RaiseStatus("Payment verification failed", paid)
        /\ Cardinality(GetsOf(calls)) = 2
        /\ Cardinality(ProofsOf(calls)) = 1

C23_Witness ==
    /\ Ended
    /\ paid.status = 500
    /\ paid.receipt = "success"
    /\ paid.body.text = "garbage"
    /\ PaymentVerificationFailed(result)

\* C33: when the first response has a status other than 200 and 402,
\* request() fails with "API request failed" carrying that status and body;
\* it builds no payment proof, asks the selector nothing and sends no
\* second GET.
C33_OtherStatusFails ==
    (Ended /\ first # NetErr /\ first.status \notin {200, 402}) =>
        /\ result = RaiseStatus("API request failed", first)
        /\ result.kind = "raise"
        /\ result.status = first.status /\ result.body = first.body
        /\ Cardinality(GetsOf(calls)) = 1
        /\ ProofsOf(calls) = {}
        /\ selected = NotCalled
        /\ paid = NoResp

C33_Witness ==
    /\ Ended
    /\ first.status = 500
    /\ first.body.text = "json" /\ first.body.doc.kind = "challenge"
    /\ first.receipt = "success"
    /\ result.kind = "raise" /\ result.err = "API request failed" /\ result.status = 500
    /\ Len(http) = calls

\* -------------------------------------------------- executor: properties

\* the calls executor e made, in order
OpsOf(e) == rpc[e]
\* the places in OpsOf(e) of the calls of step k with operation op
OpsAt(e, k, op) == {p \in 1..Len(OpsOf(e)) : OpsOf(e)[p].step = k /\ OpsOf(e)[p].op = op}
\* the places where step k obtained a receipt with success status
ConfirmedAt(e, k) ==
    {p \in OpsAt(e, k, "wait_for_transaction_receipt") : OpsOf(e)[p].outcome = "ok"}
\* the places where a transaction was broadcast
Broadcasts(e) ==
    {p \in 1..Len(OpsOf(e)) :
        OpsOf(e)[p].op = "send_raw_transaction" /\ OpsOf(e)[p].outcome = "ok"}
\* broadcast, and no receipt with success status obtained since
Unconfirmed(e) ==
    {p \in Broadcasts(e) :
        ~\E q \in ConfirmedAt(e, OpsOf(e)[p].step) : q > p /\ OpsOf(e)[q].tx = OpsOf(e)[p].tx}
\* execute_multiple raised (and the caller may have reported it)
Halted(e) == ex[e].pc \in {"raised", "reported"}
\* every transaction the chain has seen
OnChain == pool \cup {r.tx : r \in receipts}

\* C7: execute_multiple runs the steps in the order of the input list, one
\* at a time: nothing of step k+1 (count read, build, estimate, sign,
\* broadcast) happens before step k obtained a receipt with success status,
\* and at most one transaction of the sequence is broadcast and unconfirmed.
C7_StepsInOrder ==
    \A e \in Execs :
        LET ops == OpsOf(e) IN
        /\ \A p, q \in 1..Len(ops) : p <= q => ops[p].step <= ops[q].step
        /\ \A q \in 1..Len(ops) :
              /\ ops[q].step > 0 => \E p \in ConfirmedAt(e, ops[q].step - 1) : p < q
              /\ ops[q].tx # NoTx => ops[q].tx.payload = ex[e].tx_payloads[ops[q].step + 1]
        /\ Cardinality(Unconfirmed(e)) <= 1
        /\ Cardinality(Unconfirmed(e)) = 1 => ex[e].pc = "wait" \/ Halted(e)

C7_Witness ==
    /\ ex[1].pc = "wait"
    /\ ex[1].i = 2
    /\ ex[1].tx_payloads = <<"approve", "deposit", "deposit">>
    /\ Cardinality(Unconfirmed(1)) = 1
    /\ Cardinality(Broadcasts(1)) = 3

\* C8: in execute_multiple the transaction count of step 0 is read from the
\* "latest" view and that of every later step from the "pending" view, and
\* each step reads the count exactly once, before anything else it does.
C8_NonceView ==
    \A e \in Execs :
        LET ops == OpsOf(e) IN
        /\ \A p \in 1..Len(ops) :
              ops[p].op = "get_transaction_count" =>
                  ops[p].view = (IF ops[p].step = 0 THEN "latest" ELSE "pending")
        /\ \A p \in 1..Len(ops) :
              /\ Cardinality(OpsAt(e, ops[p].step, "get_transaction_count")) = 1
              /\ \A q \in OpsAt(e, ops[p].step, "get_transaction_count") : q <= p

C8_Witness ==
    /\ ex[1].pc = "returned"
    /\ Len(ex[1].tx_payloads) = 2
    /\ \E p \in OpsAt(1, 0, "get_transaction_count") : OpsOf(1)[p].view = "latest"
    /\ \E p \in OpsAt(1, 1, "get_transaction_count") :
          OpsOf(1)[p].view = "pending" /\ OpsOf(1)[p].outcome = "ok"

\* C9: when a step of execute_multiple fails the executor halts: the failing
\* call is the last call it makes, so no transaction of a later step is
\* built or broadcast; every transaction it ever broadcast carries the
\* payload of its own step, at most one per step, so none revokes or
\* reverses an earlier step; the chain has seen nothing else.
C9_HaltsWithoutRevoke ==
    \A e \in Execs :
        LET ops == OpsOf(e) IN
        /\ \A p \in 1..Len(ops) :
              ops[p].outcome # "ok" =>
                  /\ p = Len(ops)
                  /\ Halted(e)
                  /\ ex[e].i = ops[p].step
        /\ Halted(e) =>
              /\ Len(ops) > 0 /\ ops[Len(ops)].outcome # "ok"
              /\ Cardinality(Broadcasts(e)) <= ex[e].i + 1
        /\ \A p \in Broadcasts(e) :
              /\ ops[p].tx.payload = ex[e].tx_payloads[ops[p].step + 1]
              /\ \A q \in Broadcasts(e) : ops[q].step = ops[p].step => q = p
              /\ ops[p].tx \in OnChain
        /\ e = 1 => \A tx \in OnChain : \E p \in Broadcasts(e) : ops[p].tx = tx

C9_Witness ==
    /\ ex[1].pc = "reported"
    /\ ex[1].i = 1
    /\ ex[1].tx_payloads = <<"approve", "deposit", "deposit">>
    /\ ex[1].error.cause.msg = "Transaction failed"
    /\ Cardinality(OnChain) = 2

\* str(e) of the failure of a call, as execute raises it
CauseOfCall(c) ==
    CASE c.op = "estimate_gas" -> Cause("Gas estimation failed", NoHash)
      [] c.op = "sign_transaction" -> Cause("signing error", NoHash)
      [] c.op = "wait_for_transaction_receipt" /\ c.outcome = "reverted" ->
            Cause("Transaction failed", TxHash(c.tx))
      [] c.op = "wait_for_transaction_receipt" /\ c.outcome = "timeout" ->
            Cause("TimeExhausted", NoHash)
      [] OTHER -> Cause("RPC error", NoHash)

\* C10: when step i > 0 of execute_multiple fails, the failure raised lists
\* the identifiers of steps 0..i-1, each the transaction whose receipt
\* confirmed that step, in execution order, and nothing of step i or later;
\* it names the failing step (counted from 1) and carries its cause.
C10_FailureCarriesPrefix ==
    \A e \in Execs :
        (Halted(e) /\ ex[e].i > 0) =>
            LET ops == OpsOf(e)
                err == ex[e].error
            IN  /\ err.kind = "sequence"
                /\ Len(err.previous) = ex[e].i
                /\ \A k \in 1..ex[e].i :
                      \E p \in ConfirmedAt(e, k - 1) : err.previous[k] = TxHash(ops[p].tx)
                /\ \A p \in 1..Len(ops) :
                      ops[p].step >= ex[e].i /\ ops[p].tx # NoTx =>
                          \A k \in 1..Len(err.previous) : err.previous[k] # TxHash(ops[p].tx)
                /\ err.index = ops[Len(ops)].step + 1
                /\ err.cause = CauseOfCall(ops[Len(ops)])

C10_Witness ==
    /\ ex[1].pc = "raised"
    /\ ex[1].i = 2
    /\ Len(ex[1].error.previous) = 2
    /\ ex[1].error.cause.msg = "TimeExhausted"
    /\ ex[1].error.index = 3

\* the last call executor e made
LastCall(e) == OpsOf(e)[Len(OpsOf(e))]

\* C11: when step 0 of execute_multiple fails (a one-step sequence included)
\* the call fails at once, at the failing call, with the cause of that step
\* and no identifier listed as succeeded.
C11_FirstStepFailure ==
    \A e \in Execs :
        (Halted(e) /\ ex[e].i = 0) =>
            /\ ex[e].error.kind = "first"
            /\ ex[e].error.previous = <<>>
            /\ ex[e].tx_hashes = <<>>
            /\ ex[e].error.index = 1
            /\ ex[e].error.cause = CauseOfCall(LastCall(e))
            /\ LastCall(e).step = 0 /\ LastCall(e).outcome # "ok"
            /\ \A p \in 1..Len(OpsOf(e)) : OpsOf(e)[p].step = 0

C11_Witness ==
    /\ Halted(1)
    /\ ex[1].i = 0
    /\ ex[1].tx_payloads = <<"approve">>
    /\ ex[1].error.cause.msg = "Transaction failed"
    /\ ex[1].error.previous = <<>>

\* C12: when gas estimation fails in execute the call fails with the gas
\* estimation error before any gas-price read, signing or broadcast: the
\* failed estimate is the last call made, the step's transaction is never
\* signed or sent, and every step estimates at most once.
C12_GasEstimationFailsFast ==
    \A e \in Execs :
        LET ops == OpsOf(e) IN
        /\ \A p \in 1..Len(ops) :
              (ops[p].op = "estimate_gas" /\ ops[p].outcome # "ok") =>
                  /\ p = Len(ops)
                  /\ Halted(e)
                  /\ ex[e].error.cause = Cause("Gas estimation failed", NoHash)
                  /\ \A op \in {"gas_price", "sign_transaction", "send_raw_transaction"} :
                        OpsAt(e, ops[p].step, op) = {}
                  /\ \A tx \in OnChain : tx.nonce # ops[p].tx.nonce
        /\ \A p \in 1..Len(ops) : Cardinality(OpsAt(e, ops[p].step, "estimate_gas")) <= 1
        /\ \A p \in 1..Len(ops) :
              ops[p].op \in {"gas_price", "sign_transaction", "send_raw_transaction"} =>
                  \E q \in OpsAt(e, ops[p].step, "estimate_gas") : q < p /\ ops[q].outcome = "ok"

C12_Witness ==
    /\ Halted(1)
    /\ ex[1].i = 1
    /\ LastCall(1).op = "estimate_gas"
    /\ LastCall(1).outcome = "raise"
    /\ Cardinality(OnChain) = 1

\* C13: a confirmation wait that ends by timeout is surfaced by
\* execute_multiple as an error of another kind than the one surfaced for a
\* receipt of non-success status, so that the caller can tell them apart by
\* the kind of what is raised.
C13_DistinctErrorKinds ==
    \A e \in Execs :
        (Halted(e) /\ LastCall(e).outcome = "timeout") =>
            LET reverted == Cause("Transaction failed", TxHash(LastCall(e).tx)) IN
            /\ ExecuteRaises(ex[e].error.cause) # ExecuteRaises(reverted)
            /\ ex[e].error.type # SequenceFailure(e, reverted).type

\* the places in OpsOf(e) before place p where step k's call of op returned
DoneBefore(e, k, op, p) == {q \in OpsAt(e, k, op) : q < p /\ OpsOf(e)[q].outcome = "ok"}

\* C24: every transaction execute handles goes through built, gas estimated,
\* signed, broadcast in that order and ends confirmed or failed: it is not
\* estimated before it was built, not signed before its gas estimate (and
\* the gas price read) succeeded, not broadcast before it was signed, not
\* waited for before it was broadcast; it is confirmed (its identifier
\* returned) only through a receipt with success status, and a step that is
\* over ended in that receipt or in the failure of its last call.
C24_TransactionLifecycle ==
    \A e \in Execs :
        LET ops == OpsOf(e) IN
        /\ \A p \in 1..Len(ops) :
              LET k == ops[p].step IN
              /\ ops[p].op = "estimate_gas" =>
                    /\ DoneBefore(e, k, "get_transaction_count", p) # {}
                    /\ ops[p].tx.payload = ex[e].tx_payloads[k + 1]
              /\ ops[p].op = "gas_price" => DoneBefore(e, k, "estimate_gas", p) # {}
              /\ ops[p].op = "sign_transaction" =>
                    /\ \E q \in DoneBefore(e, k, "estimate_gas", p) :
                          ops[q].tx.nonce = ops[p].tx.nonce
                    /\ \E gas_estimate \in GasEstimates :
                          ops[p].tx.gas = GasLimit(gas_estimate)
                    /\ DoneBefore(e, k, "gas_price", p) # {}
                    /\ ops[p].tx.gas > 0 /\ ops[p].tx.gasPrice > 0 /\ ops[p].tx.nonce >= 0
              /\ ops[p].op = "send_raw_transaction" =>
                    \E q \in DoneBefore(e, k, "sign_transaction", p) : ops[q].tx = ops[p].tx
              /\ ops[p].op = "wait_for_transaction_receipt" =>
                    /\ \E q \in DoneBefore(e, k, "send_raw_transaction", p) : ops[q].tx = ops[p].tx
                    /\ ops[p].outcome = "ok" => [tx |-> ops[p].tx, status |-> 1] \in receipts
                    /\ ops[p].outcome = "reverted" => [tx |-> ops[p].tx, status |-> 0] \in receipts
        /\ Len(ex[e].tx_hashes) = ex[e].i
        /\ \A k \in 1..Len(ex[e].tx_hashes) :
              \E p \in ConfirmedAt(e, k - 1) :
                  /\ ex[e].tx_hashes[k] = TxHash(ops[p].tx)
                  /\ [tx |-> ops[p].tx, status |-> 1] \in receipts
        /\ Halted(e) => Len(ops) > 0 /\ LastCall(e).outcome # "ok" /\ LastCall(e).step = ex[e].i
        /\ ex[e].pc = "returned" => ex[e].i = Len(ex[e].tx_payloads)

C24_Witness ==
    /\ Halted(1)
    /\ ex[1].i = 1
    /\ Len(ex[1].tx_hashes) = 1
    /\ LastCall(1).op = "wait_for_transaction_receipt"
    /\ LastCall(1).outcome = "reverted"
    /\ Cardinality(Broadcasts(1)) = 2

\* C25: for every gas estimate the chain returns, the gas limit on the
\* signed transaction is at least 1.5 times the estimate
\* (gas limit * 2 >= estimate * 3).
C25_GasLimitCoversEstimate ==
    \A e \in Execs :
        ex[e].pc \in {"send", "wait"} =>
            ex[e].transaction.gas * 2 >= ex[e].gas_estimate * 3

\* the steps of executor e whose receipt confirmed success
ConfirmedSteps(e) == {k \in 0..MaxSteps : ConfirmedAt(e, k) # {}}

\* C26: at every point of an execute_multiple run the result list, created
\* empty, holds in order the identifiers of exactly the steps whose receipts
\* confirmed success, and these steps are a prefix of the sequence; on full
\* success the returned list has one identifier per payload in input order;
\* an empty sequence returns the empty list without any chain call.
C26_ResultListIsConfirmedPrefix ==
    \A e \in Execs :
        LET ops == OpsOf(e)
            tx_hashes == ex[e].tx_hashes
        IN  /\ ops = <<>> => tx_hashes = <<>>
            /\ ConfirmedSteps(e) = {k - 1 : k \in 1..Len(tx_hashes)}
            /\ \A k \in 1..Len(tx_hashes) :
                  /\ Cardinality(ConfirmedAt(e, k - 1)) = 1
                  /\ \A p \in ConfirmedAt(e, k - 1) :
                        /\ tx_hashes[k] = TxHash(ops[p].tx)
                        /\ ops[p].tx.payload = ex[e].tx_payloads[k]
            /\ ex[e].pc = "returned" =>
                  /\ Len(tx_hashes) = Len(ex[e].tx_payloads)
                  /\ ex[e].tx_payloads = <<>> => ops = <<>> /\ tx_hashes = <<>>
            /\ (ex[e].pc # "idle" /\ ex[e].tx_payloads = <<>>) => ex[e].pc = "returned"
            /\ Halted(e) => Len(tx_hashes) < Len(ex[e].tx_payloads)

C26_Witness ==
    /\ ex[1].pc = "returned"
    /\ ex[1].tx_payloads = <<"deposit", "approve", "deposit">>
    /\ Len(ex[1].tx_hashes) = 3
    /\ ex[1].tx_hashes[1] # ex[1].tx_hashes[3]
    /\ Cardinality(ConfirmedSteps(1)) = 3

\* the places where executor e signed a transaction
Signed(e) ==
    {p \in 1..Len(OpsOf(e)) :
        OpsOf(e)[p].op = "sign_transaction" /\ OpsOf(e)[p].outcome = "ok"}

\* C27: within one execute_multiple run, nothing else using the signing key,
\* the transaction count step k >= 1 uses as nonce reflects step k-1: every
\* transaction of step k carries a nonce one above that of step k-1, so the
\* nonces of successive steps are strictly increasing and no two steps of
\* the sequence are signed with the same nonce.
C27_NoncesIncrease ==
    \A e \in Execs :
        LET ops == OpsOf(e) IN
        /\ \A p, q \in 1..Len(ops) :
              (ops[p].tx # NoTx /\ ops[q].tx # NoTx) =>
                  /\ ops[p].step < ops[q].step => ops[p].tx.nonce < ops[q].tx.nonce
                  /\ ops[p].step = ops[q].step => ops[p].tx.nonce = ops[q].tx.nonce
                  /\ ops[q].step = ops[p].step + 1 => ops[q].tx.nonce = ops[p].tx.nonce + 1
        /\ \A p, q \in Signed(e) : ops[p].tx.nonce = ops[q].tx.nonce => p = q
        /\ \A p \in Signed(e) : \A tx \in OnChain : tx.nonce = ops[p].tx.nonce => tx = ops[p].tx

C27_Witness ==
    /\ Cardinality(Signed(1)) = 3
    /\ ex[1].pc = "send"
    /\ ex[1].i = 2
    /\ ex[1].transaction.nonce = 3
    /\ \E p \in Signed(1) : OpsOf(1)[p].step = 0 /\ OpsOf(1)[p].tx.nonce = 1

\* executor e has read the count and built its transaction
HoldsNonce(e) == ex[e].transaction # NoTx

\* C28: two sequences run at the same time on the same signing key by
\* independent executors can read the same transaction count and sign with
\* the same nonce, because reading the count reserves nothing: as long as
\* no transaction has reached the chain every executor that has read the
\* count holds the chain's count as its nonce, whoever else holds it.
C28_NoNonceReservation ==
    \A e1, e2 \in Execs :
        (OnChain = {} /\ HoldsNonce(e1) /\ HoldsNonce(e2)) =>
            /\ ex[e1].transaction.nonce = ex[e2].transaction.nonce
            /\ ex[e1].transaction.nonce = count

\* both executors have signed, with the same nonce, different transactions
C28_Witness ==
    /\ ex[1].pc = "send" /\ ex[2].pc = "send"
    /\ Signed(1) # {} /\ Signed(2) # {}
    /\ ex[1].transaction.nonce = ex[2].transaction.nonce
    /\ ex[1].transaction.payload # ex[2].transaction.payload
    /\ \E p \in OpsAt(1, 0, "get_transaction_count"), q \in OpsAt(2, 0, "get_transaction_count") :
          OpsOf(1)[p].outcome = "ok" /\ OpsOf(2)[q].outcome = "ok"

\* ---------------------------------------------------------------- numbers
\* Python's int is unbounded and its float is an IEEE-754 double.  A natural
\* number is the sequence of its bits, lowest first, without leading zero
\* (0 is <<>>); a double is [m, e], standing for m * 2^e with m below 2^53.

Norm(x) ==
    LET ones == {k \in 1..Len(x) : x[k] = 1} IN
    IF ones = {} THEN <<>> ELSE SubSeq(x, 1, CHOOSE k \in ones : \A j \in ones : j <= k)

Bit(x, k) == IF k \in 1..Len(x) THEN x[k] ELSE 0

\* columns base + 1 .. base + 16 of cols gathered into one number
RECURSIVE LimbSum(_, _, _)
LimbSum(cols, base, t) ==
    IF t = 16 THEN 0
    ELSE (IF base + t + 1 <= Len(cols) THEN cols[base + t + 1] * (2 ^ t) ELSE 0)
            + LimbSum(cols, base, t + 1)

\* carries propagated through 16-bit limbs, lowest first
RECURSIVE CarryLimbs(_, _, _)
CarryLimbs(limbs, j, c) ==
    IF j > Len(limbs)
    THEN IF c = 0 THEN <<>> ELSE <<c % 65536>> \o CarryLimbs(limbs, j, c \div 65536)
    ELSE <<(limbs[j] + c) % 65536>> \o CarryLimbs(limbs, j + 1, (limbs[j] + c) \div 65536)

\* the number whose k-th bit column holds cols[k] (each below 2^14)
Carried(cols) ==
    LET limbs == CarryLimbs([j \in 1..((Len(cols) + 15) \div 16) |->
                                LimbSum(cols, 16 * (j - 1), 0)], 1, 0)
    IN  Norm([k \in 1..(16 * Len(limbs)) |->
                (limbs[((k - 1) \div 16) + 1] \div (2 ^ ((k - 1) % 16))) % 2])

Longer(x, y) == IF Len(x) >= Len(y) THEN Len(x) ELSE Len(y)

NatAdd(x, y) == Carried([k \in 1..Longer(x, y) |-> Bit(x, k) + Bit(y, k)])

NatMul(x, y) ==
    Carried([k \in 1..(Len(x) + Len(y)) |->
                Cardinality({i \in 1..Len(x) : x[i] = 1 /\ Bit(y, k + 1 - i) = 1})])

\* x <= y
NatLeq(x, y) ==
    \/ Len(x) < Len(y)
    \/ /\ Len(x) = Len(y)
       /\ \/ x = y
          \/ \E k \in 1..Len(x) :
                /\ x[k] = 0 /\ y[k] = 1
                /\ \A j \in (k + 1)..Len(x) : x[j] = y[j]

\* x * 2^k and x // 2^k
Shl(x, k) == IF x = <<>> THEN <<>> ELSE [i \in 1..(k + Len(x)) |-> IF i <= k THEN 0 ELSE x[i - k]]
Shr(x, k) == IF k >= Len(x) THEN <<>> ELSE SubSeq(x, k + 1, Len(x))

\* int(h, 16); a hexadecimal numeral is the sequence of its digits 0..15,
\* highest first
HexToNat(h) ==
    Norm([k \in 1..(4 * Len(h)) |->
            LET d == h[Len(h) - ((k - 1) \div 4)] IN
            CASE (k - 1) % 4 = 0 -> d % 2
              [] (k - 1) % 4 = 1 -> (d \div 2) % 2
              [] (k - 1) % 4 = 2 -> (d \div 4) % 2
              [] OTHER -> (d \div 8) % 2])

\* f"{x:0{width}x}": at least width digits, more when x needs more
NatToHex(x, width) ==
    LET need == (Len(x) + 3) \div 4
        n == IF need > width THEN need ELSE width
    IN  [i \in 1..n |->
            LET low == 4 * (n - i) IN
            Bit(x, low + 1) + 2 * Bit(x, low + 2) + 4 * Bit(x, low + 3) + 8 * Bit(x, low + 4)]

\* bits of the significand of a double
Precision == 53

\* the double nearest to x * 2^e, ties to the even significand
RoundToDouble(x, e) ==
    IF Len(x) <= Precision
    THEN [m |-> x, e |-> e]
    ELSE LET drop == Len(x) - Precision
             kept == Shr(x, drop)
             half == x[drop] = 1
             sticky == \E k \in 1..(drop - 1) : x[k] = 1
             up == half /\ (sticky \/ kept[1] = 1)
             m == IF up THEN NatAdd(kept, <<1>>) ELSE kept
         IN  IF Len(m) > Precision
             THEN [m |-> Shr(m, 1), e |-> e + drop + 1]
             ELSE [m |-> m, e |-> e + drop]

\* float(x) of an int, f * g of two doubles, int(f) of a double that is >= 0
FloatOfInt(x) == RoundToDouble(x, 0)
FloatMul(f, g) == RoundToDouble(NatMul(f.m, g.m), f.e + g.e)
IntOfFloat(f) == IF f.e >= 0 THEN Shl(f.m, f.e) ELSE Shr(f.m, 0 - f.e)

\* ------------------------------------------------ approval buffer: values

\* A call-data string by its slices: head is data[:10] ("0x" and the four
\* selector bytes), spender data[10:74], amount data[74:138], the 64 hex
\* digits of the 32-byte amount.  None is the 'data' of a payload whose
\* action carried none (transactions.py:46, tx.get('data')).
None == [head |-> "None", spender |-> "", amount |-> <<>>]
ApproveSelector == "0x095ea7b3"
DepositSelector == "0x6e553f65"
Spender == "000000000000000000000000vault"

\* h left-padded with zeros to the 64 digits of a 32-byte word
Word(h) == [i \in 1..64 |-> IF i <= 64 - Len(h) THEN 0 ELSE h[i - (64 - Len(h))]]

\* amounts: zero; one; 3; 1000; 10**6; 2**53; 2**53+1; 5*10**17; 10**18; 2**64; 2**255; 2**256-1
Amounts ==
    {Word(<<0>>),
     Word(<<1>>),
     Word(<<3>>),
     Word(<<3, 14, 8>>),
     Word(<<15, 4, 2, 4, 0>>),
     Word(<<2, 0, 0, 0, 0, 0, 0, 0, 0, 0, 0, 0, 0, 0>>),
     Word(<<2, 0, 0, 0, 0, 0, 0, 0, 0, 0, 0, 0, 0, 1>>),
     Word(<<6, 15, 0, 5, 11, 5, 9, 13, 3, 11, 2, 0, 0, 0, 0>>),
     Word(<<13, 14, 0, 11, 6, 11, 3, 10, 7, 6, 4, 0, 0, 0, 0>>),
     Word(<<1, 0, 0, 0, 0, 0, 0, 0, 0, 0, 0, 0, 0, 0, 0, 0, 0>>),
     Word(<<8, 0, 0, 0, 0, 0, 0, 0, 0, 0, 0, 0, 0, 0, 0, 0, 0, 0, 0, 0, 0, 0, 0, 0, 0, 0, 0, 0, 0, 0, 0, 0, 0, 0, 0, 0, 0, 0, 0, 0, 0, 0, 0, 0, 0, 0, 0, 0, 0, 0, 0, 0, 0, 0, 0, 0, 0, 0, 0, 0, 0, 0, 0, 0>>),
     Word(<<15, 15, 15, 15, 15, 15, 15, 15, 15, 15, 15, 15, 15, 15, 15, 15, 15, 15, 15, 15, 15, 15, 15, 15, 15, 15, 15, 15, 15, 15, 15, 15, 15, 15, 15, 15, 15, 15, 15, 15, 15, 15, 15, 15, 15, 15, 15, 15, 15, 15, 15, 15, 15, 15, 15, 15, 15, 15, 15, 15, 15, 15, 15, 15>>)}

ApproveData == {[head |-> ApproveSelector, spender |-> Spender, amount |-> a] : a \in Amounts}
OtherData ==
    {[head |-> DepositSelector, spender |-> Spender, amount |-> a] :
        a \in {Word(<<3, 14, 8>>), Word(<<13, 14, 0, 11, 6, 11, 3, 10, 7, 6, 4, 0, 0, 0, 0>>)}}

\* payloads as generate_deposit_tx builds them: {'to', 'data', 'value'}
FirstPayloads ==
    {[to |-> "token", data |-> data, value |-> "0"] : data \in ApproveData \cup OtherData \cup {None}}
LaterPayloads ==
    {[to |-> "vault", data |-> [head |-> DepositSelector, spender |-> Spender,
                                 amount |-> Word(<<3, 14, 8>>)], value |-> "0"],
     [to |-> "token", data |-> [head |-> ApproveSelector, spender |-> Spender,
                                 amount |-> Word(<<3, 14, 8>>)], value |-> "0"]}
TransactionLists ==
    {<<>>} \cup {<<first_tx>> \o later :
                    first_tx \in FirstPayloads,
                    later \in UNION {[1..n -> LaterPayloads] : n \in 0..(MaxSteps - 1)}}

\* ---------------------------------------------- approval buffer: the code

Returned(val) == [kind |-> "return", val |-> val, err |-> ""]
Raised(err) == [kind |-> "raise", val |-> <<>>, err |-> err]

\* 1 + buffer_percent / 100 for buffer_percent = 10.0 (agent.py:176), in
\* doubles: 10.0 / 100 is 0.1 and 1 + 0.1 is 0x1.199999999999ap+0
BufferFactor ==
    [m |-> HexToNat(<<1, 1, 9, 9, 9, 9, 9, 9, 9, 9, 9, 9, 9, 10>>), e |-> 0 - 52]

\* modify_erc20_approve_amount (utils.py:8-39); tx_data begins with "0x"
\* here, so line 26 adds nothing
modify_erc20_approve_amount_spenderLost(tx_data, new_amount) ==
    [head |-> tx_data.head, spender |-> "", amount |-> NatToHex(new_amount, 64)]
modify_erc20_approve_amount(tx_data, new_amount) ==
    [head |-> tx_data.head, spender |-> tx_data.spender, amount |-> NatToHex(new_amount, 64)]

\* increase_approval_buffer(transactions, buffer_percent=10.0) (utils.py:42-83)
increase_approval_buffer(txs) ==
    IF Len(txs) < 2
    THEN Returned(txs)
    ELSE LET approve_tx == txs[1]
             approve_data == approve_tx.data
         IN  IF approve_data = None
             THEN Raised("AttributeError")
             ELSE IF approve_data.head # ApproveSelector
             THEN Returned(txs)
             ELSE LET current_amount == HexToNat(approve_data.amount)
                      new_amount ==
                          IntOfFloat(FloatMul(FloatOfInt(current_amount), BufferFactor))
                      modified_approve_data ==
                          modify_erc20_approve_amount(approve_data, new_amount)
                  IN  Returned([txs EXCEPT ![1] = [approve_tx EXCEPT !.data = modified_approve_data]])

\* the rewrite is run on a payload list (agent.py:176)
run_increase_approval_buffer ==
    /\ buffered = NotRun
    /\ buffered' = increase_approval_buffer(transactions)
    /\ UNCHANGED <<transactions, deposit_response, generated, clientVars, execVars, agentVars>>

BufferNext == run_increase_approval_buffer

BufferInit ==
    /\ ClientInit /\ ExecInit /\ count = 0 /\ AgentIdle
    /\ transactions \in TransactionLists
    /\ buffered = NotRun
    /\ deposit_response = NoResponse /\ generated = NotRun

BufferSpec == BufferInit /\ [][BufferNext]_vars

\* ------------------------------------------------- payload generation

\* A JSON value of the response by its type.  A tx object holds 'to', 'data'
\* and 'value', each a string or missing; an entry of the actions list is an
\* object with a tx member (missing, null or a tx object) or is null; the
\* response is an object with an actions member (missing, null or a list)
\* or is not an object.
TxObjects ==
    [type : {"object"}, to : {"missing", "0xvault"}, data : {"missing", "0x6e553f65"},
     value : {"missing", "0", "5"}]
NoTxObject(type) == [type |-> type, to |-> "missing", data |-> "missing", value |-> "missing"]
TxMembers == TxObjects \cup {NoTxObject("missing"), NoTxObject("null")}
Actions == [type : {"object"}, tx : TxMembers] \cup {[type |-> "null", tx |-> NoTxObject("missing")]}
Responses ==
    {[type |-> "object", actions_type |-> "list", actions |-> actions] :
        actions \in UNION {[1..n -> Actions] : n \in 0..MaxActions}}
    \cup {[type |-> "object", actions_type |-> t, actions |-> <<>>] : t \in {"missing", "null"}}
    \cup {[type |-> "null", actions_type |-> "missing", actions |-> <<>>]}

\* tx.get(key) and tx.get('value', '0') (transactions.py:45-47)
get(tx, key, default) == IF tx[key] = "missing" THEN default ELSE tx[key]

\* the payload the loop body appends for a tx object (transactions.py:44-48)
append(tx) ==
    [to |-> get(tx, "to", "None"), data |-> get(tx, "data", "None"),
     value |-> get(tx, "value", "0")]

\* action.get('tx', {}) (transactions.py:43): None.get raises
ActionRaises(action) == action.type # "object" \/ action.tx.type = "null"

\* generate_deposit_tx from the response on (transactions.py:40-50)
generate_deposit_tx(resp) ==
    IF resp.type # "object" THEN Raised("AttributeError")
    ELSE IF resp.actions_type = "missing" THEN Returned(<<>>)
    ELSE IF resp.actions_type = "null" THEN Raised("TypeError")
    ELSE IF \E k \in 1..Len(resp.actions) : ActionRaises(resp.actions[k])
         THEN Raised("AttributeError")
         ELSE Returned([k \in 1..Len(resp.actions) |-> append(resp.actions[k].tx)])

run_generate_deposit_tx ==
    /\ generated = NotRun
    /\ deposit_response # NoResponse
    /\ generated' = generate_deposit_tx(deposit_response)
    /\ UNCHANGED <<transactions, buffered, deposit_response, clientVars, execVars, agentVars>>

PayloadNext == run_generate_deposit_tx

PayloadInit ==
    /\ ClientInit /\ ExecInit /\ count = 0 /\ AgentIdle
    /\ transactions = <<>> /\ buffered = NotRun
    /\ deposit_response \in Responses
    /\ generated = NotRun

PayloadSpec == PayloadInit /\ [][PayloadNext]_vars

\* the entries of the response's actions list, none if it has no such list
ActionsOf(resp) ==
    IF resp.type = "object" /\ resp.actions_type = "list" THEN resp.actions ELSE <<>>

\* C30: generate_deposit_tx tolerates the shape of the response: for every
\* response it returns one payload per entry of the actions list, in the
\* same order, read from the entry's tx object, a missing tx, destination
\* or call-data being absent (None) and a missing value "0"; it never fails;
\* a response without an actions list gives the empty sequence.
C30_ShapeTolerance ==
    generated # NotRun =>
        LET actions == ActionsOf(deposit_response) IN
        /\ generated.kind = "return"
        /\ Len(generated.val) = Len(actions)
        /\ \A k \in 1..Len(actions) :
              LET tx == actions[k].tx
                  payload == generated.val[k]
              IN  /\ payload.to = (IF tx.to = "missing" THEN "None" ELSE tx.to)
                  /\ payload.data = (IF tx.data = "missing" THEN "None" ELSE tx.data)
                  /\ payload.value = (IF tx.value = "missing" THEN "0" ELSE tx.value)

\* ------------------------------------------ approval buffer: properties

\* the rewrite has run
BufferRan == buffered # NotRun
\* the rewrite applies: two payloads or more, the first an approve call
RewriteApplies ==
    /\ Len(transactions) >= 2
    /\ transactions[1].data.head = ApproveSelector
\* the amount of the first payload before and after the rewrite
AmountBefore == HexToNat(transactions[1].data.amount)
AmountAfter == HexToNat(buffered.val[1].data.amount)

\* C16: whenever the call-data of the first payload does not begin with the
\* approve selector, the rewrite returns the sequence as it was given: same
\* payloads, same order, same call-data.
C16_NonApproveUnmodified ==
    (BufferRan /\ transactions # <<>> /\ transactions[1].data.head # ApproveSelector) =>
        buffered = Returned(transactions)

\* C17: when the rewrite applies it returns a sequence of the same length
\* whose payloads from the second on are the given ones, and whose first
\* payload keeps its destination, its value, the selector and the spender
\* field of its call-data.
C17_OnlyAmountChanges ==
    (BufferRan /\ RewriteApplies) =>
        /\ buffered.kind = "return"
        /\ Len(buffered.val) = Len(transactions)
        /\ \A k \in 2..Len(transactions) : buffered.val[k] = transactions[k]
        /\ buffered.val[1].to = transactions[1].to
        /\ buffered.val[1].value = transactions[1].value
        /\ buffered.val[1].data.head = transactions[1].data.head
        /\ buffered.val[1].data.spender = transactions[1].data.spender
        /\ DOMAIN buffered.val[1] = DOMAIN transactions[1]

C17_Witness ==
    /\ BufferRan
    /\ RewriteApplies
    /\ Len(transactions) = 3
    /\ transactions[1].data.amount = Word(<<3, 14, 8>>)
    /\ buffered.val[1].data.amount = Word(<<4, 4, 12>>)
    /\ buffered.val[1].data.spender = Spender

\* C18: when the rewrite applies to an approve of amount a, the amount it
\* writes is floor(a * 110 / 100), the amount scaled up by 10 percent: for
\* the written amount n, n * 100 <= a * 110 < (n + 1) * 100.
C18_ScaledAmount ==
    (BufferRan /\ RewriteApplies) =>
        LET scaled == NatMul(AmountBefore, HexToNat(<<6, 14>>))
            hundred == HexToNat(<<6, 4>>)
        IN  /\ NatLeq(NatMul(AmountAfter, hundred), scaled)
            /\ ~NatLeq(NatMul(NatAdd(AmountAfter, <<1>>), hundred), scaled)

\* C19: when the rewrite applies, the amount it writes fills the 32-byte
\* slot exactly: 64 hex digits after the selector and the spender, for every
\* 32-byte amount given.
C19_AmountFitsSlot ==
    (BufferRan /\ RewriteApplies) =>
        Len(buffered.val[1].data.amount) = 64

\* ----------------------------------------------------- gas-balance check

\* 10^18, the unit of from_wei(balance_wei, 'ether') (executor.py:37)
WeiPerEther == HexToNat(<<13, 14, 0, 11, 6, 11, 3, 10, 7, 6, 4, 0, 0, 0, 0>>)

\* min_gas_eth = 0.001 (executor.py:40): the double 0x1.0624dd2f1a9fcp-10
min_gas_eth ==
    [m |-> HexToNat(<<1, 0, 6, 2, 4, 13, 13, 2, 15, 1, 10, 9, 15, 12>>), e |-> 0 - 62]

\* check_gas_balance (executor.py:36-41): balance_eth is the Decimal
\* balance_wei / 10^18, and Python compares a Decimal with a float by their
\* exact values: balance_wei / 10^18 >= m * 2^e with e < 0
check_gas_balance(balance_wei) ==
    [balance_wei |-> balance_wei,
     sufficient |-> NatLeq(NatMul(min_gas_eth.m, WeiPerEther),
                           Shl(balance_wei, 0 - min_gas_eth.e))]

\* validate_gas_balance (executor.py:50-65)
validate_gas_balance(balance_wei) ==
    LET gas_info == check_gas_balance(balance_wei) IN
    IF ~gas_info.sufficient
    THEN [ok |-> FALSE, msg |-> "Insufficient ETH for gas"]
    ELSE [ok |-> TRUE, msg |-> ""]

\* balances in wei: 0; 0.0005, 0.001 - 1 wei, 0.001, 0.001 + 1 wei and 0.01
\* native units
Balances ==
    {<<>>, HexToNat(<<1, 12, 6, 11, 15, 5, 2, 6, 3, 4, 0, 0, 0>>), HexToNat(<<3, 8, 13, 7, 14, 10, 4, 12, 6, 7, 15, 15, 15>>), HexToNat(<<3, 8, 13, 7, 14, 10, 4, 12, 6, 8, 0, 0, 0>>),
     HexToNat(<<3, 8, 13, 7, 14, 10, 4, 12, 6, 8, 0, 0, 1>>), HexToNat(<<2, 3, 8, 6, 15, 2, 6, 15, 12, 1, 0, 0, 0, 0>>)}

\* ---------------------------------------------------- orchestrator: values

\* positions listed for one wallet in one answer
MaxPositions == 2

\* a position as PositionAPI.get_positions lists it; two vaults may share a
\* nickname
Positions ==
    {[vault_address |-> "vaultA", nickname |-> "Steakhouse"],
     [vault_address |-> "vaultB", nickname |-> "Steakhouse"],
     [vault_address |-> "vaultC", nickname |-> "Gauntlet"]}
PositionLists == UNION {[1..n -> Positions] : n \in 0..MaxPositions}
Nicknames == {p.nickname : p \in Positions} \cup {"Unknown"}
Vaults == {p.vault_address : p \in Positions}
NoVault == ""

\* config: investment.min_deposit_usd and display.position_retry_attempts
min_deposit_usd == 10
retry_attempts == 3

\* percentages and idle balances in whole USD, for which
\* idle_usdc * (percentage / 100) is exact
Percentages == {50, 100}
IdleBalances == {0, 10, 100}
\* how many actions a payload response lists
ActionCounts == {0, 1, 2}

Gas(answer) == [kind |-> "gas", op |-> "validate_gas_balance", arg |-> answer.msg,
                n |-> IF answer.ok THEN 1 ELSE 0]
Api(op, arg) == [kind |-> "api", op |-> op, arg |-> arg, n |-> 0]
Chain(op, n) == [kind |-> "chain", op |-> op, arg |-> "", n |-> n]
Says(msg) == [kind |-> "says", op |-> "", arg |-> msg, n |-> 0]
Sleep == [kind |-> "sleep", op |-> "time.sleep", arg |-> "", n |-> 0]

\* what the other subsystems and the chain keep while the Agent steps
AgentFrame == UNCHANGED <<balance, clientVars, execVars, utilVars>>

\* --------------------------------------------------- orchestrator: actions

\* a command is given to the Agent
deploy_capital(percentage) ==
    /\ cmd = "none"
    /\ cmd' = "deploy_capital"
    /\ apc' = "deploy_gas"
    /\ locals' = [NoLocals EXCEPT !.percentage = percentage]
    /\ UNCHANGED trace
    /\ AgentFrame

redeem(position_nickname, percentage) ==
    /\ cmd = "none"
    /\ cmd' = "redeem"
    /\ apc' = "redeem_gas"
    /\ locals' = [NoLocals EXCEPT !.nickname = position_nickname, !.percentage = percentage]
    /\ UNCHANGED trace
    /\ AgentFrame

redeem_all ==
    /\ cmd = "none"
    /\ cmd' = "redeem_all"
    /\ apc' = "all_positions"
    /\ locals' = NoLocals
    /\ UNCHANGED trace
    /\ AgentFrame

\* deploy_capital, step 1 (agent.py:117-120)
deploy_gas ==
    /\ apc = "deploy_gas"
    /\ LET answer == validate_gas_balance(balance) IN
       IF ~answer.ok
       THEN /\ trace' = trace \o <<Gas(answer), Says(answer.msg)>>
            /\ apc' = "done"
       ELSE /\ trace' = Append(trace, Gas(answer))
            /\ apc' = "deploy_idle_assets"
    /\ UNCHANGED <<cmd, locals>>
    /\ AgentFrame

\* a deploy_capital without the minimum-deposit test
deploy_idle_assets_noMinimum(idle_usdc) ==
    /\ apc = "deploy_idle_assets"
    /\ trace' = Append(trace, Api("get_idle_assets", ""))
    /\ apc' = "deploy_positions"
    /\ locals' = [locals EXCEPT !.deploy_amount_usd = (idle_usdc * locals.percentage) \div 100]
    /\ UNCHANGED cmd
    /\ AgentFrame

\* steps 2 to 4 (agent.py:124-140)
deploy_idle_assets(idle_usdc) ==
    /\ apc = "deploy_idle_assets"
    /\ LET deploy_amount_usd == (idle_usdc * locals.percentage) \div 100 IN
       IF deploy_amount_usd < min_deposit_usd
       THEN /\ trace' = trace \o <<Api("get_idle_assets", ""), Says("below minimum")>>
            /\ apc' = "done"
            /\ UNCHANGED locals
       ELSE /\ trace' = Append(trace, Api("get_idle_assets", ""))
            /\ apc' = "deploy_positions"
            /\ locals' = [locals EXCEPT !.deploy_amount_usd = deploy_amount_usd]
    /\ UNCHANGED cmd
    /\ AgentFrame

\* step 5 (agent.py:144); the list only goes to the selector
deploy_positions(positions) ==
    /\ apc = "deploy_positions"
    /\ trace' = Append(trace, Api("get_positions", ""))
    /\ apc' = "deploy_opportunities"
    /\ UNCHANGED <<cmd, locals>>
    /\ AgentFrame

\* steps 6 and 7 (agent.py:149-160); selected_vault is what select_vault answers
deploy_select_vault(selected_vault) ==
    /\ apc = "deploy_opportunities"
    /\ IF selected_vault = NoVault
       THEN /\ trace' = trace \o <<Api("get_best_deposit_options", ""), Says("no vault")>>
            /\ apc' = "done"
            /\ UNCHANGED locals
       ELSE /\ trace' = Append(trace, Api("get_best_deposit_options", ""))
            /\ apc' = "deploy_generate"
            /\ locals' = [locals EXCEPT !.vault = selected_vault]
    /\ UNCHANGED cmd
    /\ AgentFrame

\* step 8 (agent.py:166-176); actions is the number of actions answered
deploy_generate_deposit_tx(actions) ==
    /\ apc = "deploy_generate"
    /\ trace' = Append(trace, Api("generate_deposit_tx", locals.vault))
    /\ locals' = [locals EXCEPT !.transactions = actions]
    /\ apc' = "deploy_execute"
    /\ UNCHANGED cmd
    /\ AgentFrame

\* step 9 and the success display (agent.py:182-196); an empty list cannot fail
deploy_execute_multiple(ok) ==
    /\ apc = "deploy_execute"
    /\ ok \/ locals.transactions > 0
    /\ IF ok
       THEN /\ trace' = trace \o <<Chain("execute_multiple", locals.transactions),
                                  Says("deployed")>>
            /\ apc' = "refresh"
            /\ locals' = [locals EXCEPT !.attempt = 1]
       ELSE /\ trace' = trace \o <<Chain("execute_multiple", locals.transactions),
                                  Says("Transaction failed")>>
            /\ apc' = "done"
            /\ UNCHANGED locals
    /\ UNCHANGED cmd
    /\ AgentFrame

\* a retry loop that sleeps after its last attempt too
show_positions_with_retry_sleepLast(positions) ==
    /\ apc = "refresh"
    /\ IF positions # <<>>
       THEN /\ trace' = Append(trace, Api("get_positions", ""))
            /\ apc' = "show_positions"
            /\ UNCHANGED locals
       ELSE IF locals.attempt < retry_attempts
       THEN /\ trace' = trace \o <<Api("get_positions", ""), Sleep>>
            /\ locals' = [locals EXCEPT !.attempt = @ + 1]
            /\ UNCHANGED apc
       ELSE /\ trace' = trace \o <<Api("get_positions", ""), Sleep, Says("not showing")>>
            /\ apc' = "done"
            /\ UNCHANGED locals
    /\ UNCHANGED cmd
    /\ AgentFrame

\* _show_positions_with_retry, one attempt (agent.py:203-214)
show_positions_with_retry(positions) ==
    /\ apc = "refresh"
    /\ IF positions # <<>>
       THEN /\ trace' = Append(trace, Api("get_positions", ""))
            /\ apc' = "show_positions"
            /\ UNCHANGED locals
       ELSE IF locals.attempt < retry_attempts
       THEN /\ trace' = trace \o <<Api("get_positions", ""), Sleep>>
            /\ locals' = [locals EXCEPT !.attempt = @ + 1]
            /\ UNCHANGED apc
       ELSE /\ trace' = trace \o <<Api("get_positions", ""), Says("not showing")>>
            /\ apc' = "done"
            /\ UNCHANGED locals
    /\ UNCHANGED cmd
    /\ AgentFrame

\* where control goes when redeem returns: back into redeem_all's loop
\* (agent.py:312) or to the prompt
RedeemReturns == IF cmd = "redeem_all" THEN "all_loop" ELSE "done"

\* show_positions (agent.py:96-107), called at agent.py:207 and agent.py:296
show_positions(positions) ==
    /\ apc = "show_positions"
    /\ trace' = Append(trace, Api("get_positions", ""))
    /\ apc' = (IF cmd = "deploy_capital" THEN "done" ELSE RedeemReturns)
    /\ UNCHANGED <<cmd, locals>>
    /\ AgentFrame

\* redeem, step 1 (agent.py:224-227)
redeem_gas ==
    /\ apc = "redeem_gas"
    /\ LET answer == validate_gas_balance(balance) IN
       IF ~answer.ok
       THEN /\ trace' = trace \o <<Gas(answer), Says(answer.msg)>>
            /\ apc' = RedeemReturns
       ELSE /\ trace' = Append(trace, Gas(answer))
            /\ apc' = "redeem_positions"
    /\ UNCHANGED <<cmd, locals>>
    /\ AgentFrame

\* step 2 (agent.py:231-245): the first position of that nickname
redeem_positions(positions) ==
    /\ apc = "redeem_positions"
    /\ LET found == {k \in 1..Len(positions) : positions[k].nickname = locals.nickname} IN
       IF found = {}
       THEN /\ trace' = trace \o <<Api("get_positions", ""), Says("not found")>>
            /\ apc' = RedeemReturns
            /\ UNCHANGED locals
       ELSE LET position == positions[CHOOSE k \in found : \A j \in found : k <= j] IN
            /\ trace' = Append(trace, Api("get_positions", ""))
            /\ apc' = "redeem_generate"
            /\ locals' = [locals EXCEPT !.vault = position.vault_address]
    /\ UNCHANGED cmd
    /\ AgentFrame

\* how many payloads generate_redeem_tx returns for a response that lists
\* that many actions (transactions.py:89-102): "if actions:" and then one
\* payload appended for every action of the list
generate_redeem_tx(actions) == IF actions > 0 THEN actions ELSE 0

\* step 4 (agent.py:261-269); actions is the number of actions answered
redeem_generate_redeem_tx(actions) ==
    /\ apc = "redeem_generate"
    /\ trace' = Append(trace, Api("generate_redeem_tx", locals.vault))
    /\ locals' = [locals EXCEPT !.transactions = generate_redeem_tx(actions)]
    /\ apc' = "redeem_execute"
    /\ UNCHANGED cmd
    /\ AgentFrame

\* step 5 (agent.py:273-292): execute for one payload, else execute_multiple;
\* with no payload tx_hashes is empty and tx_hashes[0] (agent.py:285) raises
\* into the except clause
redeem_execute(ok) ==
    /\ apc = "redeem_execute"
    /\ ok \/ locals.transactions > 0
    /\ LET call == IF locals.transactions = 1
                   THEN Chain("execute", 1)
                   ELSE Chain("execute_multiple", locals.transactions)
       IN  IF ok /\ locals.transactions > 0
           THEN /\ trace' = trace \o <<call, Says("redeemed")>>
                /\ apc' = "show_positions"
           ELSE /\ trace' = trace \o <<call, Says("Transaction failed")>>
                /\ apc' = RedeemReturns
    /\ UNCHANGED <<cmd, locals>>
    /\ AgentFrame

\* redeem_all up to its loop (agent.py:302-308)
redeem_all_positions(positions) ==
    /\ apc = "all_positions"
    /\ IF positions = <<>>
       THEN /\ trace' = trace \o <<Api("get_positions", ""), Says("No positions to redeem")>>
            /\ apc' = "done"
            /\ UNCHANGED locals
       ELSE /\ trace' = Append(trace, Api("get_positions", ""))
            /\ apc' = "all_loop"
            /\ locals' = [locals EXCEPT !.positions = positions]
    /\ UNCHANGED cmd
    /\ AgentFrame

\* one turn of redeem_all's loop (agent.py:310-315): redeem(nickname, 100.0)
redeem_all_next ==
    /\ apc = "all_loop"
    /\ IF locals.positions = <<>>
       THEN /\ trace' = Append(trace, Says("All positions redeemed"))
            /\ apc' = "done"
            /\ UNCHANGED locals
       ELSE /\ locals' = [NoLocals EXCEPT !.nickname = Head(locals.positions).nickname,
                                          !.position = Head(locals.positions).vault_address,
                                          !.percentage = 100,
                                          !.positions = Tail(locals.positions)]
            /\ apc' = "redeem_gas"
            /\ UNCHANGED trace
    /\ UNCHANGED cmd
    /\ AgentFrame

AgentNext ==
    \/ \E percentage \in Percentages : deploy_capital(percentage)
    \/ \E position_nickname \in Nicknames, percentage \in Percentages :
            redeem(position_nickname, percentage)
    \/ redeem_all
    \/ deploy_gas
    \/ \E idle_usdc \in IdleBalances : deploy_idle_assets(idle_usdc)
    \/ \E positions \in PositionLists : deploy_positions(positions)
    \/ \E selected_vault \in Vaults \cup {NoVault} : deploy_select_vault(selected_vault)
    \/ \E actions \in ActionCounts : deploy_generate_deposit_tx(actions)
    \/ \E ok \in BOOLEAN : deploy_execute_multiple(ok)
    \/ \E positions \in PositionLists : show_positions_with_retry(positions)
    \/ \E positions \in PositionLists : show_positions(positions)
    \/ redeem_gas
    \/ \E positions \in PositionLists : redeem_positions(positions)
    \/ \E actions \in ActionCounts : redeem_generate_redeem_tx(actions)
    \/ \E ok \in BOOLEAN : redeem_execute(ok)
    \/ \E positions \in PositionLists : redeem_all_positions(positions)
    \/ redeem_all_next

\* the Agent of one wallet, whose balance is what the chain holds
FlowInit ==
    /\ ClientInit /\ ExecInit /\ count = 0 /\ UtilIdle
    /\ balance \in Balances
    /\ cmd = "none"
    /\ apc = "idle"
    /\ locals = NoLocals
    /\ trace = <<>>

FlowSpec == FlowInit /\ [][AgentNext]_vars

\* the refresh is sequential code whose calls (get_positions, time.sleep)
\* return: an attempt that can be made is made, and so is the display
FlowLiveSpec ==
    /\ FlowSpec
    /\ WF_vars(\E positions \in PositionLists : show_positions_with_retry(positions))
    /\ WF_vars(\E positions \in PositionLists : show_positions(positions))

Next == ClientNext \/ ExecNext \/ BufferNext \/ PayloadNext \/ AgentNext

Spec == Init /\ [][Next]_vars

\* ------------------------------------------------ orchestrator: properties

\* the threshold as the specification states it: 0.001 native units, 10^15 wei
GasThreshold == HexToNat(<<3, 8, 13, 7, 14, 10, 4, 12, 6, 8, 0, 0, 0>>)
BelowThreshold == ~NatLeq(GasThreshold, balance)
\* the API requests and the executor calls the Agent has made
ApiRequests == {k \in 1..Len(trace) : trace[k].kind = "api"}
ExecutorRuns == {k \in 1..Len(trace) : trace[k].kind = "chain"}

\* C14: in deploy_capital, redeem and redeem_all the gas precheck comes
\* before any API request: every API request and every executor run follows
\* a gas check that passed, and with a balance below the threshold the flow
\* makes no API request and runs no transaction.
C14_GasCheckBeforeApi ==
    /\ \A k \in ApiRequests \cup ExecutorRuns :
          \E j \in 1..(k - 1) : trace[j].kind = "gas" /\ trace[j].n = 1
    /\ BelowThreshold => (ApiRequests = {} /\ ExecutorRuns = {})

\* C15: the gas check answers (true, "") exactly when the balance is at
\* least 10^15 wei, the boundary included, and (false, a message) otherwise.
C15_GasCheckThreshold ==
    \A k \in 1..Len(trace) :
        trace[k].kind = "gas" =>
            /\ (trace[k].n = 1) <=> NatLeq(GasThreshold, balance)
            /\ (trace[k].n = 1) <=> (trace[k].arg = "")

\* the Agent is in a redeem, called directly or from redeem_all's loop
InRedeem == cmd \in {"redeem", "redeem_all"}

\* C31: redemption is single-step: when the redeem response lists several
\* actions, generate_redeem_tx returns only the first one, so a redeem hands
\* at most one transaction per position to the executor.
C31_SingleStepRedeem ==
    InRedeem =>
        /\ apc = "redeem_execute" => locals.transactions <= 1
        /\ \A k \in ExecutorRuns : trace[k].n <= 1

\* C32: redeem_all redeems every listed position: the redemption it starts
\* for a position of the list is requested for that position's vault, also
\* when two positions share a nickname and when an earlier one failed.
C32_RedeemAllEveryPosition ==
    (cmd = "redeem_all" /\ locals.vault # NoVault) => locals.vault = locals.position

\* the places of the trace where the Agent asked for deposit payloads
PayloadRequests ==
    {k \in ApiRequests : trace[k].op \in {"generate_deposit_tx", "generate_redeem_tx"}}
\* what the Agent printed
Said(msg) == \E k \in 1..Len(trace) : trace[k] = Says(msg)

\* C34: deploy_capital requests payloads and runs transactions only after
\* the gas precheck passed, with a deploy amount of at least the minimum
\* deposit and a vault the selector returned; when the precheck fails, the
\* amount is below the minimum or the selector returns no vault, it returns
\* with no payload request and no executor run.
C34_DeployGuards ==
    cmd = "deploy_capital" =>
        /\ \A k \in PayloadRequests \cup ExecutorRuns :
              /\ \E j \in 1..(k - 1) : trace[j].kind = "gas" /\ trace[j].n = 1
              /\ \E j \in 1..(k - 1) : trace[j] = Api("get_idle_assets", "")
              /\ \E j \in 1..(k - 1) : trace[j] = Api("get_best_deposit_options", "")
              /\ locals.deploy_amount_usd >= min_deposit_usd
              /\ locals.vault \in Vaults
        /\ \A k \in PayloadRequests : trace[k] = Api("generate_deposit_tx", locals.vault)
        /\ \A k \in ExecutorRuns : \E j \in PayloadRequests : j < k
        /\ (Said("Insufficient ETH for gas") \/ Said("below minimum") \/ Said("no vault")) =>
              /\ PayloadRequests = {} /\ ExecutorRuns = {}
              /\ apc = "done"
              /\ trace[Len(trace)].kind = "says"

C34_Witness ==
    /\ cmd = "deploy_capital"
    /\ apc = "done"
    /\ Said("no vault")
    /\ locals.deploy_amount_usd = 50
    /\ trace[1].kind = "gas" /\ trace[1].n = 1
    /\ PayloadRequests = {} /\ ExecutorRuns = {}

\* C35: deploy_capital reports a successful deployment only if at least one
\* transaction was broadcast and confirmed; a payload response with no
\* actions is not reported as a successful deployment.
C35_SuccessNeedsTransaction ==
    (cmd = "deploy_capital" /\ Said("deployed")) =>
        \E k \in ExecutorRuns : trace[k].n >= 1

\* the places of the trace that belong to the refresh after a deployment
Refresh ==
    {k \in 1..Len(trace) : \E j \in 1..(k - 1) : trace[j] = Says("deployed")}
RefreshPolls == {k \in Refresh : trace[k] = Api("get_positions", "")}
RefreshSleeps == {k \in Refresh : trace[k] = Sleep}

\* C36 as stated: the refresh after a deployment polls the positions
\* endpoint at most retry_attempts times and stops polling at the first
\* non-empty result.
C36_RefreshPollsBounded ==
    /\ Cardinality(RefreshPolls) <= retry_attempts
    /\ \A k \in RefreshPolls : k + 1 \notin RefreshPolls

\* what holds of the refresh in every state
RefreshBounds ==
    /\ locals.attempt <= retry_attempts
    /\ Cardinality(RefreshPolls) <= retry_attempts + 1
    /\ Cardinality(RefreshSleeps) <= retry_attempts - 1
    /\ \A k \in RefreshSleeps :
          /\ k - 1 \in RefreshPolls
          /\ \/ (k < Len(trace) /\ k + 1 \in RefreshPolls)
             \/ (k = Len(trace) /\ apc = "refresh")
    /\ \A k \in RefreshPolls :
          k + 1 \in RefreshPolls =>
              /\ k + 1 = Len(trace)
              /\ apc = "done"
              /\ Cardinality(RefreshPolls) <= Cardinality(RefreshSleeps) + 2
    /\ (Refresh # {} /\ Said("not showing")) =>
          /\ trace[Len(trace)] = Says("not showing")
          /\ apc = "done"
          /\ Cardinality(RefreshPolls) = retry_attempts
          /\ Cardinality(RefreshSleeps) = retry_attempts - 1
          /\ \A k \in RefreshPolls : k + 1 \notin RefreshPolls

\* C36 amended: the refresh after a deployment always terminates: its loop
\* polls the positions endpoint at most retry_attempts times and leaves at
\* the first non-empty result, after which show_positions polls once more
\* (retry_attempts + 1 polls at most); it sleeps only between attempts (at
\* most retry_attempts - 1 sleeps, never after the last attempt) and gives
\* up with a message after the last empty attempt.
C36_RefreshTerminates ==
    /\ []RefreshBounds
    /\ (apc = "refresh") ~> (apc = "done")

\* two empty attempts, a third that finds positions, and the poll of
\* show_positions after it
C36_Witness ==
    /\ apc = "done"
    /\ cmd = "deploy_capital"
    /\ Cardinality(RefreshPolls) = retry_attempts + 1
    /\ Cardinality(RefreshSleeps) = retry_attempts - 1
    /\ ~Said("not showing")

=============================================================================
